---- MODULE Spec2Model ----
(***************************************************************************)
(* Discord voice changer: the VoiceChanger mode controller and transform   *)
(* (voice_changer.py), the BufferedAudioSource jitter buffer and the       *)
(* VoiceChangerSink accumulator (bot.py), and the engine selection of the  *)
(* local-microphone variant (main.py).                                     *)
(*                                                                         *)
(* A byte string (bytes / bytearray) is a sequence of runs.  A run         *)
(*   [user, from, len, fx]                                                 *)
(* stands for len bytes of the audio stream of speaker `user`, starting at *)
(* offset `from` of that stream; fx = << >> for the bytes as received and  *)
(* fx = << s >> for the bytes the conversion path of process() (127-139)   *)
(* makes of them with semitone shift s.  user = 0 is a run of zero bytes.  *)
(* Adjacent runs that continue each other are merged, so equal byte        *)
(* strings have equal representations.                                     *)
(***************************************************************************)
EXTENDS Integers, Sequences, FiniteSets, TLC

\* ---------------------------------------------------------------- bounds
MaxWrites == 2
MaxReads == 1
MaxCtl == 1
MaxPushes == 3
MaxJReads == 4
MaxSamples == 12
MaxVcOps == 3
MaxJoins == 2

\* ------------------------------------------------- voice_changer.py 14-18
DISCORD_SAMPLE_RATE == 48000
DISCORD_CHANNELS == 2
DISCORD_FRAME_MS == 20
DISCORD_FRAME_SAMPLES == (DISCORD_SAMPLE_RATE * DISCORD_FRAME_MS) \div 1000
DISCORD_FRAME_BYTES == DISCORD_FRAME_SAMPLES * DISCORD_CHANNELS * 2

\* ------------------------------------------------------------ bot.py 89,98
PROCESS_FRAMES == 10
chunk_bytes == DISCORD_FRAME_BYTES * PROCESS_FRAMES

\* The speakers of a session, each fed by one receive thread.
Users == {1, 2}

\* ----------------------------------------------------------- byte strings
Empty == << >>

Run(u, from, n, fx) == [user |-> u, from |-> from, len |-> n, fx |-> fx]

\* data received from speaker u at stream offset `from`
Raw(u, from, n) == IF n = 0 THEN Empty ELSE << Run(u, from, n, << >>) >>

\* b"\x00" * n
Zeros(n) == IF n = 0 THEN Empty ELSE << Run(0, 0, n, << >>) >>

RECURSIVE BLen(_)
BLen(b) == IF b = Empty THEN 0 ELSE Head(b).len + BLen(Tail(b))

Continues(r, q) ==
    /\ r.user = q.user
    /\ r.user # 0
    /\ r.fx = q.fx
    /\ r.from + r.len = q.from

\* bytearray.extend(data)
Extend(b, d) ==
    IF d = Empty THEN b
    ELSE IF b = Empty THEN d
    ELSE LET r == b[Len(b)]
             q == Head(d)
         IN IF Continues(r, q)
            THEN SubSeq(b, 1, Len(b) - 1)
                    \o << Run(r.user, r.from, r.len + q.len, r.fx) >>
                    \o Tail(d)
            ELSE b \o d

\* b[:n]
RECURSIVE Slice(_, _)
Slice(b, n) ==
    IF n <= 0 \/ b = Empty THEN Empty
    ELSE LET r == Head(b)
         IN IF r.len <= n
            THEN << r >> \o Slice(Tail(b), n - r.len)
            ELSE << Run(r.user, r.from, n, r.fx) >>

\* del b[:n]
RECURSIVE DelPrefix(_, _)
DelPrefix(b, n) ==
    IF n <= 0 \/ b = Empty THEN b
    ELSE LET r == Head(b)
         IN IF r.len <= n
            THEN DelPrefix(Tail(b), n - r.len)
            ELSE << Run(r.user, IF r.user = 0 THEN 0 ELSE r.from + n, r.len - n, r.fx) >>
                    \o Tail(b)

IsZeros(b) == \A i \in 1..Len(b) : b[i].user = 0

\* ------------------------------------------------------------- variables
VARIABLES
    mode, gender_st, custom_st,          \* VoiceChanger fields
    has_pyrb, has_librosa,               \* which optional backends import
    buf, lock,                           \* BufferedAudioSource._buf, ._lock
    user_bufs, play_lock,                \* VoiceChangerSink fields
    playing,                             \* vc.is_playing()
    wpc, attached, orphan, chunk, st, processed,   \* receive threads in write()
    wtotal, dispatched,                  \* len(buf) after extend, pushes so far
    rpc, frame,                          \* player thread in read()
    cpc,                                 \* control thread
    pos, nwrites, nreads, nctl,          \* bytes received, calls made
    playAttempts,                        \* calls of vc.play
    lastOp, opPre, opPost, r0,           \* the last mode-set call, the shift before
                                         \* and after it, calls done when a read began
    pcm_len, semis, out_len, mono_len,   \* one transform call on its own
    snap, rsince,                        \* the buffer at the last push or clear,
                                         \* reads since
    jpushed, jdata,                      \* bytes pushed and frames of data read
                                         \* since the last clear
    torn, inflight, wsince, late,        \* the last cleanup has completed; a write() was
                                         \* running when it began; one was called
                                         \* since it began; u's call began after it
    npushed, playErrs,                   \* windows pushed for u; vc.play calls
                                         \* that raised
    joined, njoins                       \* a session is open; cmd_join calls

vcVars == << mode, gender_st, custom_st >>
engineVars == << has_pyrb, has_librosa >>
srcVars == << buf, lock >>
sinkVars == << user_bufs, play_lock, playing >>
wVars == << wpc, attached, orphan, chunk, st, processed, wtotal, dispatched >>
rVars == << rpc, frame >>
cntVars == << pos, nwrites, nreads, nctl >>
trackVars == << lastOp, opPre, opPost >>
dspVars == << pcm_len, semis, out_len, mono_len >>
jbVars == << snap, rsince, jpushed, jdata >>
tdVars == << torn, inflight, wsince, late >>
histVars == << npushed, playErrs >>
lifeVars == << joined, njoins >>
auxVars == << tdVars, histVars, lifeVars >>
unitVars == << r0, pcm_len, semis, out_len, mono_len >>

vars == << mode, gender_st, custom_st, has_pyrb, has_librosa, buf, lock,
           user_bufs, play_lock, playing, wpc, attached, orphan, chunk, st,
           processed, wtotal, dispatched, rpc, frame, cpc, pos, nwrites,
           nreads, nctl, playAttempts, lastOp, opPre, opPost, r0,
           pcm_len, semis, out_len, mono_len, snap, rsince, jpushed, jdata,
           torn, inflight, wsince, late, npushed, playErrs, joined, njoins >>

\* ------------------------------------------------ engine selection, 21-31
\* the selection with librosa preferred to pyrubberband
EngineLibrosaFirst(pyrb, librosa) ==
    IF librosa THEN "librosa"
    ELSE IF pyrb THEN "pyrubberband"
    ELSE "scipy"

ENGINE(pyrb, librosa) ==
    IF pyrb THEN "pyrubberband"
    ELSE IF librosa THEN "librosa"
    ELSE "scipy"

\* main.py, pitch_shift (112-120) with HAS_PYRUBBERBAND and HAS_LIBROSA
\* (62-72): the backend it calls for a shift other than 0
MAIN_ENGINE(pyrb, librosa) ==
    IF pyrb THEN "pyrubberband"
    ELSE IF librosa THEN "librosa"
    ELSE "scipy"

\* ------------------------------------------------- _pitch_shift, 36-60
\* 2.0 ** (semitones / 12.0), in units of 1/100000
Factor(shift) ==
    CASE shift = 6 -> 141421
      [] shift = -6 -> 70711
      [] shift = 10 -> 178180
      [] shift = -10 -> 56123
      [] shift = 12 -> 200000
      [] shift = -12 -> 50000
      [] OTHER -> 100000

\* int(round(num / den)) for num >= 0, den > 0: ties go to the even integer
Round(num, den) ==
    LET q == num \div den
        r == num % den
    IN IF 2 * r < den THEN q
       ELSE IF 2 * r > den THEN q + 1
       ELSE IF q % 2 = 0 THEN q ELSE q + 1

Max(a, b) == IF a >= b THEN a ELSE b
Min(a, b) == IF a <= b THEN a ELSE b
Ceil(a, b) == (a + b - 1) \div b

\* new_len = max(1, int(round(n / factor)))
NewLen(n, shift) == Max(1, Round(n * 100000, Factor(shift)))

\* len(np.tile(resampled, repeats)[:n]), repeats = ceil(n / new_len) + 1
TileLen(n, new_len) == Min((Ceil(n, new_len) + 1) * new_len, n)

\* the fallback returning the resampled array as it is
ScipyLenAsResampled(n, new_len) == new_len

\* the length of what the scipy fallback returns for n samples
ScipyLen(n, new_len) ==
    IF new_len >= n THEN Min(new_len, n) ELSE TileLen(n, new_len)

\* _pitch_shift returning new_len samples, the length not forced back to n
PitchShiftLenResampled(engine, n, shift) == NewLen(n, shift)

\* the length of what _pitch_shift returns for n mono samples; pyrubberband
\* and librosa return an array as long as their input
PitchShiftLen(engine, n, shift) ==
    IF engine = "scipy" THEN ScipyLen(n, NewLen(n, shift)) ELSE n

\* len(mono) for pcm_bytes of nbytes bytes (stereo int16: 4 bytes a sample)
MonoLen(nbytes) == (nbytes \div 2) \div 2

\* len(stereo.tobytes()): np.repeat(out_i16, 2), 2 bytes each
StereoBytes(nsamples) == nsamples * 2 * 2

\* ------------------------------------------------------ VoiceChanger, 65-
FIXED(m) ==
    CASE m = "normal" -> 0
      [] m = "high" -> 6
      [] m = "low" -> -6
      [] OTHER -> 0

\* the semitones property read in one piece
semitones(m, g, c) ==
    IF m = "gender" THEN g
    ELSE IF m = "custom" THEN c
    ELSE FIXED(m)

\* process, 126-139: int16 to float, stereo to mono, _pitch_shift, clip,
\* mono to stereo; the result for the window `pcm` and the shift s
convert(engine, pcm, s) ==
    LET n == StereoBytes(PitchShiftLen(engine, MonoLen(BLen(pcm)), s))
    IN IF n = 0 THEN Empty
       ELSE << Run(pcm[1].user, pcm[1].from, n, << s >>) >>

\* process without its fast path (123-124)
processAlwaysConverts(engine, pcm, s) == convert(engine, pcm, s)

\* the bytes process() returns for the window `pcm` with the shift snapshot s
\* when the backend does not raise (122-139)
process(engine, pcm, s) ==
    IF s = 0 THEN pcm ELSE convert(engine, pcm, s)

\* ------------------------------------------------------------- threads
Free == << "free", 0 >>
Writer(u) == << "writer", u >>
Player == << "player", 0 >>
Control == << "control", 0 >>

\* the sizes of the data a write() call delivers: one frame, one window,
\* two windows and a frame
DataSizes == { DISCORD_FRAME_BYTES, chunk_bytes, 2 * chunk_bytes + DISCORD_FRAME_BYTES }

\* the sizes of the data pushed to a BufferedAudioSource on its own: half a
\* frame, one frame, two frames
PushSizes == { DISCORD_FRAME_BYTES \div 2, DISCORD_FRAME_BYTES, 2 * DISCORD_FRAME_BYTES }

Op(name, a) == [op |-> name, arg |-> a]

\* the bytearray the local `buf` of u's write() call refers to
CurBuf(u) == IF attached[u] THEN user_bufs[u] ELSE orphan[u]

\* push assigning the data instead of appending it
pushReplaces(b, data) == data

\* BufferedAudioSource.push, the locked body
push(b, data) == Extend(b, data)

\* read with `>` for `>=` in its test (48)
ReadHasFrameStrict(b) == BLen(b) > DISCORD_FRAME_BYTES

\* read deleting the head of the buffer whether or not it holds a frame
ReadRestAlways(b) == DelPrefix(b, DISCORD_FRAME_BYTES)

\* BufferedAudioSource.read, the locked body: the frame returned and what is left
ReadHasFrame(b) == BLen(b) >= DISCORD_FRAME_BYTES
ReadFrame(b) ==
    IF ReadHasFrame(b) THEN Slice(b, DISCORD_FRAME_BYTES) ELSE Zeros(DISCORD_FRAME_BYTES)
ReadRest(b) ==
    IF ReadHasFrame(b) THEN DelPrefix(b, DISCORD_FRAME_BYTES) ELSE b

\* ---------------------------------------------------------------- Init
InitVoiceChanger ==
    /\ mode = "normal"
    /\ gender_st = 10
    /\ custom_st = 0

InitSession ==
    /\ buf = Empty
    /\ lock = Free
    /\ user_bufs = << >>
    /\ play_lock = Free
    /\ playing = FALSE
    /\ wpc = [u \in Users |-> "idle"]
    /\ attached = [u \in Users |-> FALSE]
    /\ orphan = [u \in Users |-> Empty]
    /\ chunk = [u \in Users |-> Empty]
    /\ st = [u \in Users |-> 0]
    /\ processed = [u \in Users |-> Empty]
    /\ wtotal = [u \in Users |-> 0]
    /\ dispatched = [u \in Users |-> 0]
    /\ rpc = "idle"
    /\ frame = Empty
    /\ cpc = "idle"
    /\ pos = [u \in Users |-> 0]
    /\ nwrites = 0
    /\ nreads = 0
    /\ nctl = 0
    /\ playAttempts = 0

InitUnit ==
    /\ lastOp = Op("none", 0)
    /\ opPre = 0
    /\ opPost = 0
    /\ r0 = [u \in Users |-> 0]
    /\ pcm_len = 0
    /\ semis = 0
    /\ out_len = 0
    /\ mono_len = 0
    /\ snap = Empty
    /\ rsince = 0
    /\ jpushed = 0
    /\ jdata = 0
    /\ torn = FALSE
    /\ inflight = FALSE
    /\ wsince = FALSE
    /\ late = [u \in Users |-> FALSE]
    /\ npushed = [u \in Users |-> 0]
    /\ playErrs = 0
    /\ joined = TRUE
    /\ njoins = 1

\* The session runs on the resampling fallback, the one backend whose code is
\* in voice_changer.py; SpecDsp below covers every choice of backends.
Init ==
    /\ InitVoiceChanger
    /\ has_pyrb = FALSE
    /\ has_librosa = FALSE
    /\ InitSession
    /\ InitUnit

\* ------------------------------------------- VoiceChangerSink.write, 103-124
\* buf[...] = b for the bytearray u's write() call holds
SetCurBuf(u, b) ==
    IF attached[u]
    THEN /\ user_bufs' = [user_bufs EXCEPT ![u] = b]
         /\ orphan' = orphan
    ELSE /\ orphan' = [orphan EXCEPT ![u] = b]
         /\ user_bufs' = user_bufs

\* while len(buf) >= self._chunk_bytes (109): where write() goes next with b in
\* its bytearray
LoopPc(b) == IF BLen(b) >= chunk_bytes THEN "p_mode1" ELSE "w_play_lock"

\* chunk = bytes(buf[:n]); del buf[:n] (110-111), when the loop goes on
LoopChunk(b) == IF BLen(b) >= chunk_bytes THEN Slice(b, chunk_bytes) ELSE Empty
LoopRest(b) == IF BLen(b) >= chunk_bytes THEN DelPrefix(b, chunk_bytes) ELSE b

\* setdefault handing out a bytearray another speaker already uses
setdefaultShared(d, u) ==
    IF u \in DOMAIN d THEN d[u]
    ELSE IF DOMAIN d # {} THEN d[CHOOSE x \in DOMAIN d : TRUE]
    ELSE Empty

\* self._user_bufs.setdefault(user, bytearray()) (105): the contents of the
\* bytearray it returns
setdefault(d, u) == IF u \in DOMAIN d THEN d[u] ELSE Empty

\* write(data, user) is called: setdefault, extend and the first loop test
\* (105-111); only this thread touches the bytearray's contents
WriteCall(u, n) ==
    /\ wpc[u] = "idle"
    /\ nwrites < MaxWrites
    /\ LET old == setdefault(user_bufs, u)
           new == Extend(old, Raw(u, pos[u], n))
       IN /\ user_bufs' = [x \in DOMAIN user_bufs \cup {u} |->
                              IF x = u THEN LoopRest(new) ELSE user_bufs[x]]
          /\ wtotal' = [wtotal EXCEPT ![u] = BLen(new)]
          /\ chunk' = [chunk EXCEPT ![u] = LoopChunk(new)]
          /\ wpc' = [wpc EXCEPT ![u] = LoopPc(new)]
          /\ r0' = [r0 EXCEPT ![u] = IF LoopPc(new) = "p_mode1" THEN nctl ELSE 0]
    /\ attached' = [attached EXCEPT ![u] = TRUE]
    /\ pos' = [pos EXCEPT ![u] = @ + n]
    /\ nwrites' = nwrites + 1
    /\ wsince' = (wsince \/ cpc # "idle" \/ torn)
    /\ late' = [late EXCEPT ![u] = torn]
    /\ UNCHANGED << vcVars, engineVars, torn, inflight, histVars, lifeVars, srcVars, play_lock, playing, orphan, st,
                    processed, dispatched, rVars, cpc, nreads, nctl,
                    playAttempts, trackVars, dspVars, jbVars >>

\* process called with the jitter buffer's lock already taken
PMode1Locked(u) ==
    /\ wpc[u] = "p_mode1"
    /\ lock = Free
    /\ lock' = Writer(u)
    /\ wpc' = [wpc EXCEPT ![u] = IF mode = "gender" THEN "p_gender" ELSE "p_mode2"]
    /\ UNCHANGED << vcVars, engineVars, auxVars, buf, sinkVars, attached, orphan,
                    chunk, st, processed, wtotal, dispatched, rVars, cpc,
                    cntVars, playAttempts, trackVars, unitVars, jbVars >>

\* process: st = self.semitones, first read of self.mode (90)
PMode1(u) ==
    /\ wpc[u] = "p_mode1"
    /\ wpc' = [wpc EXCEPT ![u] = IF mode = "gender" THEN "p_gender" ELSE "p_mode2"]
    /\ UNCHANGED << vcVars, engineVars, auxVars, srcVars, sinkVars, attached, orphan,
                    chunk, st, processed, wtotal, dispatched, rVars, cpc,
                    cntVars, playAttempts, trackVars, unitVars, jbVars >>

\* return self._gender_st (91)
PGender(u) ==
    /\ wpc[u] = "p_gender"
    /\ st' = [st EXCEPT ![u] = gender_st]
    /\ wpc' = [wpc EXCEPT ![u] = "p_dsp"]
    /\ UNCHANGED << vcVars, engineVars, auxVars, srcVars, sinkVars, attached, orphan,
                    chunk, processed, wtotal, dispatched, rVars, cpc,
                    cntVars, playAttempts, trackVars, unitVars, jbVars >>

\* second read of self.mode (92), and return self._custom_st (93)
PMode2(u) ==
    /\ wpc[u] = "p_mode2"
    /\ IF mode = "custom"
       THEN /\ st' = [st EXCEPT ![u] = custom_st]
            /\ wpc' = [wpc EXCEPT ![u] = "p_dsp"]
       ELSE /\ st' = st
            /\ wpc' = [wpc EXCEPT ![u] = "p_mode3"]
    /\ UNCHANGED << vcVars, engineVars, auxVars, srcVars, sinkVars, attached, orphan,
                    chunk, processed, wtotal, dispatched, rVars, cpc,
                    cntVars, playAttempts, trackVars, unitVars, jbVars >>

\* return self._FIXED.get(self.mode, 0.0), third read of self.mode (94)
PMode3(u) ==
    /\ wpc[u] = "p_mode3"
    /\ st' = [st EXCEPT ![u] = FIXED(mode)]
    /\ wpc' = [wpc EXCEPT ![u] = "p_dsp"]
    /\ UNCHANGED << vcVars, engineVars, auxVars, srcVars, sinkVars, attached, orphan,
                    chunk, processed, wtotal, dispatched, rVars, cpc,
                    cntVars, playAttempts, trackVars, unitVars, jbVars >>

\* process reading self.semitones again when it calls the backend
PDspRereads(u) ==
    /\ wpc[u] = "p_dsp"
    /\ lock = Free
    /\ lock' = Writer(u)
    /\ processed' = [processed EXCEPT ![u] =
                        process(ENGINE(has_pyrb, has_librosa), chunk[u],
                                semitones(mode, gender_st, custom_st))]
    /\ wpc' = [wpc EXCEPT ![u] = "w_pushing"]
    /\ UNCHANGED << vcVars, engineVars, auxVars, buf, sinkVars, attached, orphan,
                    chunk, st, wtotal, dispatched, rVars, cpc, cntVars,
                    playAttempts, trackVars, unitVars, jbVars >>

\* the rest of process (123-139) returns, and push() takes self._lock (65)
PDsp(u) ==
    /\ wpc[u] = "p_dsp"
    /\ lock = Free
    /\ lock' = Writer(u)
    /\ processed' = [processed EXCEPT ![u] =
                        process(ENGINE(has_pyrb, has_librosa), chunk[u], st[u])]
    /\ wpc' = [wpc EXCEPT ![u] = "w_pushing"]
    /\ UNCHANGED << vcVars, engineVars, auxVars, buf, sinkVars, attached, orphan,
                    chunk, st, wtotal, dispatched, rVars, cpc, cntVars,
                    playAttempts, trackVars, unitVars, jbVars >>

\* a backend error switching the changer back to normal
PDspRaiseResets(u) ==
    /\ wpc[u] = "p_dsp"
    /\ st[u] # 0
    /\ mode' = "normal"
    /\ wpc' = [wpc EXCEPT ![u] = "raised"]
    /\ UNCHANGED << gender_st, custom_st, engineVars, auxVars, srcVars, sinkVars,
                    attached, orphan, chunk, st, processed, wtotal, dispatched,
                    rVars, cpc, cntVars, playAttempts, trackVars, unitVars,
                    jbVars >>

\* the backend raises inside _pitch_shift (133): nothing in process or write
\* catches it, so write() ends with the exception
PDspRaise(u) ==
    /\ wpc[u] = "p_dsp"
    /\ st[u] # 0
    /\ wpc' = [wpc EXCEPT ![u] = "raised"]
    /\ UNCHANGED << vcVars, engineVars, auxVars, srcVars, sinkVars, attached, orphan,
                    chunk, st, processed, wtotal, dispatched, rVars, cpc,
                    cntVars, playAttempts, trackVars, unitVars, jbVars >>

\* self._buf.extend(data) and the lock's release (66), then the next loop
\* test (109-111)
WPush(u) ==
    /\ wpc[u] = "w_pushing"
    /\ buf' = push(buf, processed[u])
    /\ lock' = Free
    /\ dispatched' = [dispatched EXCEPT ![u] = @ + 1]
    /\ npushed' = [npushed EXCEPT ![u] = @ + 1]
    /\ chunk' = [chunk EXCEPT ![u] = LoopChunk(CurBuf(u))]
    /\ SetCurBuf(u, LoopRest(CurBuf(u)))
    /\ wpc' = [wpc EXCEPT ![u] = LoopPc(CurBuf(u))]
    /\ r0' = [r0 EXCEPT ![u] = IF LoopPc(CurBuf(u)) = "p_mode1" THEN nctl ELSE 0]
    /\ UNCHANGED << vcVars, engineVars, tdVars, playErrs, lifeVars, play_lock, playing, attached, st,
                    processed, wtotal, rVars, cpc, cntVars, playAttempts,
                    trackVars, dspVars, jbVars >>

\* the is_playing test made without self._play_lock
WPlayLockNoLock(u) ==
    /\ wpc[u] = "w_play_lock"
    /\ IF playing
       THEN /\ play_lock' = play_lock
            /\ wpc' = [wpc EXCEPT ![u] = "returned"]
       ELSE /\ play_lock' = Writer(u)
            /\ wpc' = [wpc EXCEPT ![u] = "w_play"]
    /\ UNCHANGED << vcVars, engineVars, auxVars, srcVars, user_bufs, playing,
                    attached, orphan, chunk, st, processed, wtotal, dispatched,
                    rVars, cpc, cntVars, playAttempts, trackVars, unitVars,
                    jbVars >>

\* with self._play_lock: if not self.vc.is_playing() (116-117); when the
\* client plays, the lock is released and write() returns
WPlayLock(u) ==
    /\ wpc[u] = "w_play_lock"
    /\ play_lock = Free
    /\ IF playing
       THEN /\ play_lock' = Free
            /\ wpc' = [wpc EXCEPT ![u] = "returned"]
       ELSE /\ play_lock' = Writer(u)
            /\ wpc' = [wpc EXCEPT ![u] = "w_play"]
    /\ UNCHANGED << vcVars, engineVars, auxVars, srcVars, user_bufs, playing, attached,
                    orphan, chunk, st, processed, wtotal, dispatched, rVars,
                    cpc, cntVars, playAttempts, trackVars, unitVars, jbVars >>

\* self.vc.play(self.audio_source, ...) starts the player (119-122); the lock
\* is released and write() returns
WPlay(u) ==
    /\ wpc[u] = "w_play"
    /\ ~playing
    /\ playing' = TRUE
    /\ playAttempts' = playAttempts + 1
    /\ play_lock' = Free
    /\ wpc' = [wpc EXCEPT ![u] = "returned"]
    /\ UNCHANGED << vcVars, engineVars, auxVars, srcVars, user_bufs, attached,
                    orphan, chunk, st, processed, wtotal, dispatched, rVars,
                    cpc, cntVars, trackVars, unitVars, jbVars >>

\* vc.play raising with no except clause around it
WPlayRaiseUncaught(u) ==
    /\ wpc[u] = "w_play"
    /\ playAttempts' = playAttempts + 1
    /\ playErrs' = playErrs + 1
    /\ play_lock' = Free
    /\ wpc' = [wpc EXCEPT ![u] = "raised"]
    /\ UNCHANGED << vcVars, engineVars, tdVars, npushed, lifeVars, srcVars,
                    user_bufs, playing, attached, orphan, chunk, st, processed,
                    wtotal, dispatched, rVars, cpc, cntVars, trackVars,
                    unitVars, jbVars >>

\* self.vc.play raises (not connected, already playing): caught and printed
\* (123-124); the lock is released and write() returns
WPlayRaise(u) ==
    /\ wpc[u] = "w_play"
    /\ playAttempts' = playAttempts + 1
    /\ playErrs' = playErrs + 1
    /\ play_lock' = Free
    /\ wpc' = [wpc EXCEPT ![u] = "returned"]
    /\ UNCHANGED << vcVars, engineVars, tdVars, npushed, lifeVars, srcVars, user_bufs, playing, attached,
                    orphan, chunk, st, processed, wtotal, dispatched, rVars,
                    cpc, cntVars, trackVars, unitVars, jbVars >>

\* the caller of write() goes on: the call's locals are gone
WDone(u) ==
    /\ wpc[u] \in {"returned", "raised"}
    /\ wpc' = [wpc EXCEPT ![u] = "idle"]
    /\ attached' = [attached EXCEPT ![u] = FALSE]
    /\ orphan' = [orphan EXCEPT ![u] = Empty]
    /\ chunk' = [chunk EXCEPT ![u] = Empty]
    /\ processed' = [processed EXCEPT ![u] = Empty]
    /\ st' = [st EXCEPT ![u] = 0]
    /\ wtotal' = [wtotal EXCEPT ![u] = 0]
    /\ dispatched' = [dispatched EXCEPT ![u] = 0]
    /\ late' = [late EXCEPT ![u] = FALSE]
    /\ r0' = [r0 EXCEPT ![u] = 0]
    /\ UNCHANGED << vcVars, engineVars, torn, inflight, wsince, histVars, lifeVars, srcVars, sinkVars, rVars, cpc, cntVars,
                    playAttempts, trackVars, dspVars, jbVars >>

\* the player ends on its own (a playback error: the `after` callback, 121)
PlaybackEnds ==
    /\ playing
    /\ playing' = FALSE
    /\ UNCHANGED << vcVars, engineVars, auxVars, srcVars, user_bufs, play_lock, wVars,
                    rVars, cpc, cntVars, playAttempts, trackVars, unitVars,
                    jbVars >>

\* ------------------------------------------- BufferedAudioSource.read, 45-52
\* with self._lock (47)
ReadLock(max) ==
    /\ rpc = "idle"
    /\ nreads < max
    /\ lock = Free
    /\ lock' = Player
    /\ rpc' = "r_read"
    /\ UNCHANGED << vcVars, engineVars, auxVars, buf, sinkVars, wVars, frame, cpc,
                    cntVars, playAttempts, trackVars, unitVars, jbVars >>

\* read returning silence from inside the with block without the lock's
\* release
ReadBodyKeepsLock ==
    /\ rpc = "r_read"
    /\ frame' = ReadFrame(buf)
    /\ buf' = ReadRest(buf)
    /\ lock' = IF ReadHasFrame(buf) THEN Free ELSE Player
    /\ rpc' = "idle"
    /\ nreads' = nreads + 1
    /\ UNCHANGED << vcVars, engineVars, auxVars, sinkVars, wVars, cpc, pos, nwrites,
                    nctl, playAttempts, trackVars, unitVars >>

\* the locked body and the return (48-52)
ReadBody ==
    /\ rpc = "r_read"
    /\ frame' = ReadFrame(buf)
    /\ buf' = ReadRest(buf)
    /\ lock' = Free
    /\ rpc' = "idle"
    /\ nreads' = nreads + 1
    /\ UNCHANGED << vcVars, engineVars, auxVars, sinkVars, wVars, cpc, pos, nwrites,
                    nctl, playAttempts, trackVars, unitVars >>

\* the player thread reads while the voice client plays
PlayerLock == playing /\ ReadLock(MaxReads)

Read == ReadBody /\ UNCHANGED jbVars

\* --------------------------------------------------- mode setters, 107-113
\* set_normal, set_high, set_low: self.mode = m
SetMode(m, max) ==
    /\ cpc = "idle"
    /\ nctl < max
    /\ mode' = m
    /\ nctl' = nctl + 1
    /\ UNCHANGED << gender_st, custom_st, engineVars, auxVars, srcVars, sinkVars, wVars,
                    rVars, cpc, pos, nwrites, nreads, playAttempts, unitVars,
                    jbVars >>

\* set_gender with the two signs exchanged
GenderStExchanged(male_to_female) == IF male_to_female THEN -10 ELSE 10

\* set_gender(male_to_female): self._gender_st = 10.0 or -10.0 (112)
GenderSt(male_to_female) == IF male_to_female THEN 10 ELSE -10

SetGender(male_to_female, max) ==
    /\ cpc = "idle"
    /\ nctl < max
    /\ gender_st' = GenderSt(male_to_female)
    /\ cpc' = "g_mode"
    /\ UNCHANGED << mode, custom_st, engineVars, auxVars, srcVars, sinkVars, wVars,
                    rVars, cntVars, playAttempts, unitVars, jbVars >>

\* self.mode = "gender" (113)
set_gender_mode ==
    /\ cpc = "g_mode"
    /\ mode' = "gender"
    /\ cpc' = "idle"
    /\ nctl' = nctl + 1
    /\ UNCHANGED << gender_st, custom_st, engineVars, auxVars, srcVars, sinkVars, wVars,
                    rVars, pos, nwrites, nreads, playAttempts, trackVars,
                    unitVars, jbVars >>

\* the values a caller may ask a custom shift for
CustomValues == {12, -12}

\* changer.set_custom(v): VoiceChanger (65-139) defines no such method, so the
\* call raises AttributeError and the fields stay as they were
SetCustom(v, max) ==
    /\ cpc = "idle"
    /\ nctl < max
    /\ nctl' = nctl + 1
    /\ UNCHANGED << vcVars, engineVars, auxVars, srcVars, sinkVars, wVars, rVars, cpc,
                    pos, nwrites, nreads, playAttempts, unitVars, jbVars >>

\* --------------------------------------- VoiceChangerSink.cleanup, 126-130
\* self._user_bufs.clear() (127): a write() in progress keeps its bytearray
cleanup ==
    /\ cpc = "idle"
    /\ nctl < MaxCtl
    /\ user_bufs' = << >>
    /\ attached' = [u \in Users |-> FALSE]
    /\ orphan' = [u \in Users |-> IF attached[u] THEN user_bufs[u] ELSE orphan[u]]
    /\ cpc' = "c_lock"
    /\ inflight' = (\E u \in Users : wpc[u] \notin {"idle", "returned", "raised"})
    /\ wsince' = FALSE
    /\ torn' = FALSE
    /\ UNCHANGED << vcVars, engineVars, late, histVars, lifeVars, srcVars, play_lock, playing, wpc, chunk,
                    st, processed, wtotal, dispatched, rVars, cntVars,
                    playAttempts, trackVars, unitVars, jbVars >>

\* BufferedAudioSource.cleanup: with self._lock (58)
cleanup_lock ==
    /\ cpc = "c_lock"
    /\ lock = Free
    /\ lock' = Control
    /\ cpc' = "c_clear"
    /\ UNCHANGED << vcVars, engineVars, auxVars, buf, sinkVars, wVars, rVars, cntVars,
                    playAttempts, trackVars, unitVars, jbVars >>

\* BufferedAudioSource.cleanup leaving the bytes where they are
SourceKeep(next) ==
    /\ cpc = "c_clear"
    /\ buf' = buf
    /\ lock' = Free
    /\ cpc' = next
    /\ UNCHANGED << vcVars, engineVars, auxVars, sinkVars, wVars, rVars, pos,
                    nwrites, nreads, playAttempts, trackVars, unitVars >>

\* self._buf.clear() (59) and the lock's release
SourceClear(next) ==
    /\ cpc = "c_clear"
    /\ buf' = Empty
    /\ lock' = Free
    /\ cpc' = next
    /\ UNCHANGED << vcVars, engineVars, auxVars, sinkVars, wVars, rVars, pos, nwrites,
                    nreads, playAttempts, trackVars, unitVars >>

cleanup_clear == SourceClear("c_stop") /\ UNCHANGED << nctl, jbVars >>

\* if self.vc.is_playing(): self.vc.stop() (129-130)
cleanup_stop ==
    /\ cpc = "c_stop"
    /\ playing' = FALSE
    /\ cpc' = "idle"
    /\ nctl' = nctl + 1
    /\ torn' = TRUE
    /\ UNCHANGED << vcVars, engineVars, inflight, wsince, late, histVars, lifeVars, srcVars, user_bufs, play_lock, wVars,
                    rVars, pos, nwrites, nreads, playAttempts, trackVars,
                    unitVars, jbVars >>

\* ------------------------------------------------------ the bot's session
set_normal == SetMode("normal", MaxCtl) /\ UNCHANGED trackVars
set_high == SetMode("high", MaxCtl) /\ UNCHANGED trackVars
set_low == SetMode("low", MaxCtl) /\ UNCHANGED trackVars
set_gender(b) == SetGender(b, MaxCtl) /\ UNCHANGED trackVars
set_custom(v) == SetCustom(v, MaxCtl) /\ UNCHANGED trackVars

Next ==
    \/ \E u \in Users, n \in DataSizes : WriteCall(u, n)
    \/ \E u \in Users : PMode1(u)
    \/ \E u \in Users : PGender(u)
    \/ \E u \in Users : PMode2(u)
    \/ \E u \in Users : PMode3(u)
    \/ \E u \in Users : PDsp(u)
    \/ \E u \in Users : PDspRaise(u)
    \/ \E u \in Users : WPush(u)
    \/ \E u \in Users : WPlayLock(u)
    \/ \E u \in Users : WPlay(u)
    \/ \E u \in Users : WPlayRaise(u)
    \/ \E u \in Users : WDone(u)
    \/ PlaybackEnds
    \/ PlayerLock
    \/ Read
    \/ set_normal
    \/ set_high
    \/ set_low
    \/ \E b \in BOOLEAN : set_gender(b)
    \/ set_gender_mode
    \/ \E v \in CustomValues : set_custom(v)
    \/ cleanup
    \/ cleanup_lock
    \/ cleanup_clear
    \/ cleanup_stop

Spec == Init /\ [][Next]_vars

\* The step a thread inside a call takes without waiting.
WriterStep(u) ==
    PMode1(u) \/ PGender(u) \/ PMode2(u) \/ PMode3(u) \/ WPush(u) \/ WPlay(u)
ControlStep == set_gender_mode \/ cleanup_clear \/ cleanup_stop

\* Fair scheduling: a thread inside a call takes its next step when it can.
\* Steps that wait for a lock (65, 58, 116) are taken if the lock is free
\* again and again; nothing obliges a call to begin or the backend or
\* vc.play to raise.
Fairness ==
    /\ \A u \in Users :
          /\ WF_vars(WriterStep(u))
          /\ SF_vars(PDsp(u))
          /\ SF_vars(WPlayLock(u))
    /\ WF_vars(Read)
    /\ WF_vars(ControlStep)
    /\ SF_vars(cleanup_lock)

\* The session with every write() delivering one window and set_gender the
\* one setter called.
NextFair ==
    \/ \E u \in Users : WriteCall(u, chunk_bytes)
    \/ \E u \in Users : PMode1(u)
    \/ \E u \in Users : PGender(u)
    \/ \E u \in Users : PMode2(u)
    \/ \E u \in Users : PMode3(u)
    \/ \E u \in Users : PDsp(u)
    \/ \E u \in Users : PDspRaise(u)
    \/ \E u \in Users : WPush(u)
    \/ \E u \in Users : WPlayLock(u)
    \/ \E u \in Users : WPlay(u)
    \/ \E u \in Users : WPlayRaise(u)
    \/ \E u \in Users : WDone(u)
    \/ PlayerLock
    \/ Read
    \/ set_gender(TRUE)
    \/ set_gender_mode
    \/ cleanup
    \/ cleanup_lock
    \/ cleanup_clear
    \/ cleanup_stop

SpecFair == Init /\ [][NextFair]_vars /\ Fairness

\* ------------------------------------------- the VoiceChanger on its own
\* One thread calls the setters; other threads read changer.semitones.
Shift == semitones(mode, gender_st, custom_st)

\* the call made, the shift in force before it and once it is complete
Track(name, a, post) ==
    /\ lastOp' = Op(name, a)
    /\ opPre' = Shift
    /\ opPost' = post

vc_set_normal ==
    /\ SetMode("normal", MaxVcOps)
    /\ Track("set_normal", 0, semitones("normal", gender_st, custom_st))

vc_set_high ==
    /\ SetMode("high", MaxVcOps)
    /\ Track("set_high", 0, semitones("high", gender_st, custom_st))

vc_set_low ==
    /\ SetMode("low", MaxVcOps)
    /\ Track("set_low", 0, semitones("low", gender_st, custom_st))

vc_set_gender(b) ==
    /\ SetGender(b, MaxVcOps)
    /\ Track("set_gender", IF b THEN 1 ELSE 0,
             semitones("gender", GenderSt(b), custom_st))

vc_set_custom(v) ==
    /\ SetCustom(v, MaxVcOps)
    /\ Track("set_custom", v, Shift)

\* a thread starts reading changer.semitones (88-94)
SemitonesCall(u) ==
    /\ wpc[u] = "idle"
    /\ wpc' = [wpc EXCEPT ![u] = "p_mode1"]
    /\ r0' = [r0 EXCEPT ![u] = nctl]
    /\ UNCHANGED << vcVars, engineVars, auxVars, srcVars, sinkVars, attached, orphan,
                    chunk, st, processed, wtotal, dispatched, rVars, cpc,
                    cntVars, playAttempts, trackVars, dspVars, jbVars >>

\* the caller has used the value read
SemitonesDone(u) ==
    /\ wpc[u] = "p_dsp"
    /\ wpc' = [wpc EXCEPT ![u] = "idle"]
    /\ st' = [st EXCEPT ![u] = 0]
    /\ UNCHANGED << vcVars, engineVars, auxVars, srcVars, sinkVars, attached, orphan,
                    chunk, processed, wtotal, dispatched, rVars, cpc,
                    cntVars, playAttempts, trackVars, unitVars, jbVars >>

\* cmd_join (225-252): changer = get_changer(gid) is the VoiceChanger kept in
\* _changers for the guild (148-155), made by VoiceChanger() only when the
\* guild has none; a new VoiceChangerSink is made around it
vc_join ==
    /\ cpc = "idle"
    /\ njoins < MaxJoins
    /\ joined' = TRUE
    /\ njoins' = njoins + 1
    /\ UNCHANGED << vcVars, engineVars, tdVars, histVars, srcVars, sinkVars,
                    wVars, rVars, cpc, cntVars, playAttempts, trackVars,
                    unitVars, jbVars >>

\* cmd_leave (255-266): stop_recording, disconnect, _sinks.pop(gid); the
\* entry of _changers stays
vc_leave ==
    /\ cpc = "idle"
    /\ joined
    /\ joined' = FALSE
    /\ UNCHANGED << vcVars, engineVars, tdVars, histVars, njoins, srcVars,
                    sinkVars, wVars, rVars, cpc, cntVars, playAttempts,
                    trackVars, unitVars, jbVars >>

NextVC ==
    \/ vc_join
    \/ vc_leave
    \/ vc_set_normal
    \/ vc_set_high
    \/ vc_set_low
    \/ \E b \in BOOLEAN : vc_set_gender(b)
    \/ set_gender_mode
    \/ \E v \in CustomValues : vc_set_custom(v)
    \/ \E u \in Users : SemitonesCall(u)
    \/ \E u \in Users : PMode1(u)
    \/ \E u \in Users : PGender(u)
    \/ \E u \in Users : PMode2(u)
    \/ \E u \in Users : PMode3(u)
    \/ \E u \in Users : SemitonesDone(u)

SpecVC == Init /\ [][NextVC]_vars

\* ------------------------------------ the BufferedAudioSource on its own
\* Writer threads call push, the player thread calls read, the control
\* thread calls cleanup.
JPushCall(u, n) ==
    /\ wpc[u] = "idle"
    /\ nwrites < MaxPushes
    /\ processed' = [processed EXCEPT ![u] = Raw(u, pos[u], n)]
    /\ pos' = [pos EXCEPT ![u] = @ + n]
    /\ nwrites' = nwrites + 1
    /\ wpc' = [wpc EXCEPT ![u] = "j_push"]
    /\ UNCHANGED << vcVars, engineVars, auxVars, srcVars, sinkVars, attached, orphan,
                    chunk, st, wtotal, dispatched, rVars, cpc, nreads, nctl,
                    playAttempts, trackVars, unitVars, jbVars >>

\* with self._lock (65)
JPushLock(u) ==
    /\ wpc[u] = "j_push"
    /\ lock = Free
    /\ lock' = Writer(u)
    /\ wpc' = [wpc EXCEPT ![u] = "j_pushing"]
    /\ UNCHANGED << vcVars, engineVars, auxVars, buf, sinkVars, attached, orphan,
                    chunk, st, processed, wtotal, dispatched, rVars, cpc,
                    cntVars, playAttempts, trackVars, unitVars, jbVars >>

\* self._buf.extend(data) (66)
JPush(u) ==
    /\ wpc[u] = "j_pushing"
    /\ buf' = push(buf, processed[u])
    /\ lock' = Free
    /\ processed' = [processed EXCEPT ![u] = Empty]
    /\ wpc' = [wpc EXCEPT ![u] = "idle"]
    /\ snap' = buf'
    /\ rsince' = 0
    /\ jpushed' = jpushed + BLen(processed[u])
    /\ jdata' = jdata
    /\ UNCHANGED << vcVars, engineVars, auxVars, sinkVars, attached, orphan, chunk, st,
                    wtotal, dispatched, rVars, cpc, cntVars, playAttempts,
                    trackVars, unitVars >>

JReadLock == ReadLock(MaxJReads)

JRead ==
    /\ ReadBody
    /\ rsince' = rsince + 1
    /\ snap' = snap
    /\ jpushed' = jpushed
    /\ jdata' = jdata + (IF ReadHasFrame(buf) THEN 1 ELSE 0)

\* cleanup() is called (57)
JCleanupCall ==
    /\ cpc = "idle"
    /\ nctl < MaxCtl
    /\ cpc' = "c_lock"
    /\ UNCHANGED << vcVars, engineVars, auxVars, srcVars, sinkVars, wVars, rVars,
                    cntVars, playAttempts, trackVars, unitVars, jbVars >>

JCleanupClear ==
    /\ SourceClear("idle")
    /\ nctl' = nctl + 1
    /\ snap' = Empty
    /\ rsince' = 0
    /\ jpushed' = 0
    /\ jdata' = 0

NextJB ==
    \/ \E u \in Users, n \in PushSizes : JPushCall(u, n)
    \/ \E u \in Users : JPushLock(u)
    \/ \E u \in Users : JPush(u)
    \/ JReadLock
    \/ JRead
    \/ JCleanupCall
    \/ cleanup_lock
    \/ JCleanupClear

SpecJB == Init /\ [][NextJB]_vars

\* --------------------------------------------- one process() call on its own
\* The shifts semitones can return, and the lengths of stereo 16-bit input.
Shifts == {0, 6, -6, 10, -10} \cup CustomValues
PcmLens == { StereoBytes(k) : k \in 1..MaxSamples } \cup { chunk_bytes }

InitDsp ==
    /\ InitVoiceChanger
    /\ has_pyrb \in BOOLEAN
    /\ has_librosa \in BOOLEAN
    /\ InitSession
    /\ InitUnit

\* process(pcm_bytes) with len(pcm_bytes) = n and self.semitones = s (117-139)
Transform(n, s) ==
    /\ pcm_len' = n
    /\ semis' = s
    /\ mono_len' = MonoLen(n)
    /\ chunk' = [chunk EXCEPT ![1] = Raw(1, 0, n)]
    /\ processed' = [processed EXCEPT ![1] =
                        process(ENGINE(has_pyrb, has_librosa), chunk'[1], s)]
    /\ out_len' = BLen(processed'[1])
    /\ UNCHANGED << vcVars, engineVars, auxVars, srcVars, sinkVars, wpc, attached,
                    orphan, st, wtotal, dispatched, rVars, cpc, cntVars,
                    playAttempts, trackVars, r0, jbVars >>

NextDsp == \E n \in PcmLens, s \in Shifts : Transform(n, s)

SpecDsp == InitDsp /\ [][NextDsp]_vars

\* ================================================================ claims

\* C1: every read returns exactly DISCORD_FRAME_BYTES bytes; with at least one
\* frame buffered it returns the first frame's bytes and removes them, with
\* less (or nothing) buffered it returns zero bytes and leaves the buffer as
\* it was.
C1_ReadOneFrame ==
    [][ (rpc = "r_read" /\ rpc' = "idle") =>
          /\ BLen(frame') = DISCORD_FRAME_BYTES
          /\ IF BLen(buf) >= DISCORD_FRAME_BYTES
             THEN /\ frame' = Slice(buf, DISCORD_FRAME_BYTES)
                  /\ buf' = DelPrefix(buf, DISCORD_FRAME_BYTES)
                  /\ BLen(buf') = BLen(buf) - DISCORD_FRAME_BYTES
             ELSE /\ IsZeros(frame')
                  /\ buf' = buf
       ]_vars

\* a read has returned silence while half a frame stayed buffered
C1_Witness ==
    /\ rpc = "idle"
    /\ nreads >= 1
    /\ IsZeros(frame)
    /\ BLen(frame) = DISCORD_FRAME_BYTES
    /\ BLen(buf) = DISCORD_FRAME_BYTES \div 2

\* C2: with N bytes buffered at the last push and no push since, the first
\* floor(N / frame) reads return the buffered bytes from the front, in order,
\* every later read returns one frame of zeros, and the buffered length is N
\* less one frame per read that returned data.
C2_DrainThenSilence ==
    LET N == BLen(snap)
        full == N \div DISCORD_FRAME_BYTES
    IN rsince >= 1 =>
          /\ BLen(frame) = DISCORD_FRAME_BYTES
          /\ IF rsince <= full
             THEN /\ frame = Slice(DelPrefix(snap, (rsince - 1) * DISCORD_FRAME_BYTES),
                                   DISCORD_FRAME_BYTES)
                  /\ ~IsZeros(frame)
             ELSE IsZeros(frame)
          /\ BLen(buf) = N - Min(rsince, full) * DISCORD_FRAME_BYTES

\* two frames were buffered, two reads emptied the buffer, the third read
\* returned silence
C2_Witness ==
    /\ BLen(snap) = 2 * DISCORD_FRAME_BYTES
    /\ rsince = 3
    /\ IsZeros(frame)
    /\ BLen(buf) = 0

\* C3: a write() call whose buffer plus data totals K * window + r bytes
\* (r < window) has dispatched exactly K windows and left exactly r bytes in
\* the speaker's buffer when it ends, so the buffer then holds less than a
\* window.
C3_RemainderAfterIngest ==
    \A u \in Users :
        wpc[u] \in {"returned", "raised"} =>
            /\ dispatched[u] = wtotal[u] \div chunk_bytes
            /\ BLen(CurBuf(u)) = wtotal[u] % chunk_bytes
            /\ BLen(CurBuf(u)) < chunk_bytes

\* the same for the calls that return normally
C3_WhenReturned ==
    \A u \in Users :
        wpc[u] = "returned" =>
            /\ dispatched[u] = wtotal[u] \div chunk_bytes
            /\ BLen(CurBuf(u)) = wtotal[u] % chunk_bytes

\* C4: a window processed with shift 0 is returned byte for byte, and what
\* write() then pushes to the jitter buffer is the window it removed from the
\* speaker's buffer.
C4_IdentityWhenOff ==
    [][ \A u \in Users :
          (wpc[u] = "w_pushing" /\ st[u] = 0) =>
              /\ processed[u] = chunk[u]
              /\ wpc'[u] # "w_pushing" => buf' = Extend(buf, chunk[u])
       ]_vars

\* a whole window is about to be pushed unchanged
C4_Witness ==
    \E u \in Users :
        /\ wpc[u] = "w_pushing"
        /\ st[u] = 0
        /\ BLen(chunk[u]) = chunk_bytes
        /\ processed[u] = chunk[u]

C6_TransformFailureContained ==
    \A u \in Users :
        /\ wpc[u] # "raised"
        /\ wpc[u] = "returned" => dispatched[u] = wtotal[u] \div chunk_bytes

\* the shift each setter is to give
ExpectedShift(o) ==
    CASE o.op = "set_normal" -> 0
      [] o.op = "set_high" -> 6
      [] o.op = "set_low" -> -6
      [] o.op = "set_gender" -> IF o.arg = 1 THEN 10 ELSE -10
      [] OTHER -> 0

\* C7: the controller starts in normal with shift 0, and once a setter has
\* completed the shift is the one of that setter: 0, +6, -6, +10 or -10.
C7_LastSetterDecides ==
    /\ lastOp.op = "none" => (mode = "normal" /\ Shift = 0)
    /\ (cpc = "idle" /\ lastOp.op # "set_custom") => Shift = ExpectedShift(lastOp)

\* set_gender(False) completed after set_gender(True) was in force
C7_Witness ==
    /\ cpc = "idle"
    /\ lastOp = Op("set_gender", 0)
    /\ opPre = 10
    /\ Shift = -10

\* C8: after set_custom(v) the controller is in the custom state and the
\* shift is v.
C8_SetCustom ==
    (cpc = "idle" /\ lastOp.op = "set_custom") =>
        (mode = "custom" /\ Shift = lastOp.arg)

\* the mode-set calls that overlap u's read of semitones
Overlap(u) == (nctl + (IF cpc = "idle" THEN 0 ELSE 1)) - r0[u]

\* C9: a read of semitones that overlaps one mode-set call returns the shift
\* in force before that call or the one in force after it.
C9_NoTornRead ==
    \A u \in Users :
        (wpc[u] = "p_dsp" /\ Overlap(u) = 1) => st[u] \in {opPre, opPost}

\* C10: vc.play is called at most once in a session.
C10_PlayAttemptedOnce == playAttempts <= 1

\* a write() call of u that has ended, or none
Ended(u) == wpc[u] \in {"idle", "returned", "raised"}

\* C11: once cleanup has completed, with no write() call running when it
\* began and none called since, there is no speaker buffer, the jitter
\* buffer holds 0 bytes and the voice client is not playing.
C11_TeardownClears ==
    (torn /\ ~inflight /\ ~wsince) =>
        /\ \A u \in DOMAIN user_bufs : BLen(user_bufs[u]) = 0
        /\ BLen(buf) = 0
        /\ ~playing

\* a session that received two windows and a frame and started playback has
\* been torn down
C11_Witness ==
    /\ torn
    /\ ~inflight
    /\ ~wsince
    /\ playAttempts = 1
    /\ playErrs = 0
    /\ nreads = 0
    /\ \E u \in Users : pos[u] = 2 * chunk_bytes + DISCORD_FRAME_BYTES /\ npushed[u] = 2
    /\ user_bufs = << >>
    /\ BLen(buf) = 0
    /\ ~playing

\* C12: when cleanup ran while a write() call was transforming a window, then
\* once cleanup and that call have ended (and no call began since) the jitter
\* buffer is empty and no speaker buffer holds data.
C12_InflightDiscarded ==
    (torn /\ cpc = "idle" /\ ~wsince /\ \A u \in Users : Ended(u)) =>
        /\ BLen(buf) = 0
        /\ \A u \in DOMAIN user_bufs : BLen(user_bufs[u]) = 0

\* C13: a write() call that begins after cleanup has completed changes no
\* speaker buffer, pushes nothing to the jitter buffer and does not call
\* vc.play.
C13_NoIngestAfterTeardown ==
    [][ \A u \in Users :
          (late'[u] /\ wpc'[u] # wpc[u]) =>
              /\ user_bufs' = user_bufs
              /\ buf' = buf
              /\ playAttempts' = playAttempts
       ]_vars

\* no cleanup has begun
SessionOpen == ~torn /\ cpc \notin {"c_lock", "c_clear", "c_stop"}

\* C14: while the session is open, the k-th window pushed for a speaker is
\* the k-th window-sized slice of the bytes received for that speaker: no
\* window is skipped, duplicated or reordered.
C14_WindowsInOrder ==
    \A u \in Users :
        (SessionOpen /\ wpc[u] = "w_pushing") =>
            chunk[u] = Raw(u, npushed[u] * chunk_bytes, chunk_bytes)

\* C15: for every interleaving of pushes, reads and clears the buffered
\* length is the bytes pushed since the last clear less one frame per read
\* that returned data; a push appends its block whole at the tail and a read
\* only removes bytes from the head, so no byte is lost, duplicated or moved
\* into another block.
C15_PushAccounting ==
    [][ /\ BLen(buf') = jpushed' - DISCORD_FRAME_BYTES * jdata'
        /\ \A u \in Users :
              (wpc[u] = "j_pushing" /\ wpc'[u] = "idle") =>
                  /\ buf' = Extend(buf, processed[u])
                  /\ BLen(buf') = BLen(buf) + BLen(processed[u])
        /\ (rpc = "r_read" /\ rpc' = "idle") =>
              buf' = DelPrefix(buf, BLen(buf) - BLen(buf'))
       ]_vars

\* both speakers' blocks are in the buffer one after the other, and a read
\* has taken a frame from the head
C15_Witness ==
    /\ jdata >= 1
    /\ Len(buf) = 2
    /\ buf[1].user # buf[2].user
    /\ buf[1].user # 0
    /\ buf[2].user # 0
    /\ BLen(buf) = jpushed - DISCORD_FRAME_BYTES * jdata

\* C16: every session starts with the controller in normal (shift 0),
\* whatever setters were called before or during an earlier session.
C16_SessionStartsOff ==
    [][ (~joined /\ joined') => (mode' = "normal" /\ Shift' = 0) ]_vars

\* C17: the backend selected depends only on which backends import:
\* pyrubberband when it does, else librosa when it does, else the scipy
\* fallback, so one is always selected; voice_changer._ENGINE and
\* main.pitch_shift select the same one.
C17_EngineSelection ==
    LET e == ENGINE(has_pyrb, has_librosa)
    IN /\ e \in {"pyrubberband", "librosa", "scipy"}
       /\ has_pyrb => e = "pyrubberband"
       /\ (~has_pyrb /\ has_librosa) => e = "librosa"
       /\ (~has_pyrb /\ ~has_librosa) => e = "scipy"
       /\ e = MAIN_ENGINE(has_pyrb, has_librosa)

\* a window was transformed with both optional backends importable
C17_Witness ==
    /\ has_pyrb
    /\ has_librosa
    /\ semis # 0
    /\ out_len = chunk_bytes
    /\ ENGINE(has_pyrb, has_librosa) = "pyrubberband"
    /\ MAIN_ENGINE(has_pyrb, has_librosa) = "pyrubberband"

\* C18: vc.play is called only by the producer that holds the playback lock
\* and found the client not playing: while a producer is between the
\* is_playing test and the play call the client is not playing and no other
\* producer is there.
C18_PlayExclusive ==
    \A u \in Users :
        wpc[u] = "w_play" =>
            /\ ~playing
            /\ play_lock = Writer(u)
            /\ \A v \in Users \ {u} : wpc[v] # "w_play"

\* one producer is about to call vc.play while the other waits for the lock
C18_Witness ==
    /\ wpc[1] = "w_play"
    /\ wpc[2] = "w_play_lock"
    /\ play_lock = Writer(1)
    /\ ~playing

\* C19: when vc.play raises, write() returns normally, the jitter buffer and
\* the speaker buffers keep what the call left in them, and the playback lock
\* is free again for later calls.
C19_PlayFailureTolerated ==
    [][ \A u \in Users :
          (wpc[u] = "w_play" /\ playErrs' = playErrs + 1) =>
              /\ wpc'[u] = "returned"
              /\ buf' = buf
              /\ user_bufs' = user_bufs
              /\ orphan' = orphan
              /\ play_lock' = Free
       ]_vars

\* a speaker's first call pushed a window and its vc.play raised; the same
\* speaker's next call is pushing the next window, the first still buffered
C19_Witness ==
    \E u \in Users :
        /\ wpc[u] = "w_pushing"
        /\ npushed[u] = 1
        /\ nwrites = 2
        /\ \A v \in Users \ {u} : pos[v] = 0
        /\ playErrs = 1
        /\ playAttempts = 1
        /\ BLen(buf) = chunk_bytes

\* u's write() call is inside changer.process
InTransform(u) == wpc[u] \in {"p_mode1", "p_gender", "p_mode2", "p_mode3", "p_dsp"}

\* C20: a write() call inside the transform holds neither the jitter
\* buffer's lock nor the playback lock; whoever holds one of them is inside
\* the short body it guards, so reads and other speakers' calls do not wait
\* for a transform.
C20_TransformOutsideLocks ==
    /\ \A u \in Users :
          InTransform(u) => (lock # Writer(u) /\ play_lock # Writer(u))
    /\ \A v \in Users : lock = Writer(v) => wpc[v] = "w_pushing"
    /\ lock = Player => rpc = "r_read"
    /\ lock = Control => cpc = "c_clear"
    /\ \A v \in Users : play_lock = Writer(v) => wpc[v] = "w_play"

\* one speaker is inside a transform with a shift while the other speaker
\* holds the jitter buffer's lock and pushes
C20_Witness ==
    /\ wpc[1] = "p_dsp"
    /\ st[1] # 0
    /\ wpc[2] = "w_pushing"
    /\ lock = Writer(2)

\* C21: under fair scheduling every write(), read(), setter and cleanup()
\* call that has begun ends; no thread holds the jitter buffer's lock and the
\* playback lock together, and a thread outside a call holds no lock.
C21_EveryCallEnds ==
    /\ [](\A u \in Users : ~(lock = Writer(u) /\ play_lock = Writer(u)))
    /\ [](\A u \in Users : Ended(u) => (lock # Writer(u) /\ play_lock # Writer(u)))
    /\ [](rpc = "idle" => lock # Player)
    /\ [](cpc = "idle" => lock # Control)
    /\ \A u \in Users : (~Ended(u)) ~> Ended(u)
    /\ (rpc # "idle") ~> (rpc = "idle")
    /\ (cpc # "idle") ~> (cpc = "idle")

\* a write() call waits for the jitter buffer's lock, held by cleanup, while
\* the other speaker's call holds the playback lock
C21_Witness ==
    /\ wpc[1] = "p_dsp"
    /\ lock = Control
    /\ cpc = "c_clear"
    /\ wpc[2] = "w_play"
    /\ play_lock = Writer(2)

\* C22: process takes the shift once, at its start, and transforms the whole
\* window with it: a setter that runs after the snapshot changes neither the
\* snapshot nor what is pushed for that window; a window whose process call
\* began after the last control call ended is transformed with the shift then
\* in force, also when it is a later window of the same write() call.
C22_SingleSnapshot ==
    [][ \A u \in Users :
          /\ (wpc[u] \in {"p_dsp", "w_pushing"} /\ wpc'[u] \in {"p_dsp", "w_pushing"}) =>
                (st'[u] = st[u] /\ chunk'[u] = chunk[u])
          /\ (wpc[u] = "p_dsp" /\ wpc'[u] = "w_pushing") =>
                processed'[u] = process(ENGINE(has_pyrb, has_librosa), chunk[u], st[u])
          /\ (wpc[u] = "w_pushing" /\ wpc'[u] # "w_pushing") =>
                buf' = Extend(buf, process(ENGINE(has_pyrb, has_librosa), chunk[u], st[u]))
          /\ (wpc'[u] \in {"p_dsp", "w_pushing"} /\ Overlap(u)' = 0) => st'[u] = Shift'
       ]_vars

\* a call pushed its first window unchanged, a setter ran, and the second
\* window of the same call has been transformed with the new shift; the
\* setter ended before that window's process call began
C22_Witness ==
    \E u \in Users :
        /\ wpc[u] = "w_pushing"
        /\ dispatched[u] = 1
        /\ st[u] # 0
        /\ st[u] = Shift
        /\ Overlap(u) = 0
        /\ processed[u] = convert(ENGINE(has_pyrb, has_librosa), chunk[u], st[u])
        /\ buf = Raw(u, 0, chunk_bytes)

\* a step of a setter: self.mode = ... (107-109, 113) or self._gender_st = ...
\* (112)
SetterStep ==
    \/ cpc = "idle" /\ cpc' = "idle" /\ nctl' = nctl + 1
    \/ cpc = "idle" /\ cpc' = "g_mode"
    \/ cpc = "g_mode" /\ cpc' = "idle"

\* C23: the mode, the cross-gender sign and the custom value change only in
\* a step of a setter; the steps of write, process, read, push and cleanup
\* leave them as they are.
C23_ModeChangesOnlyInSetters ==
    [][ /\ (vcVars' # vcVars) => SetterStep
        /\ ( \/ \E u \in Users : wpc'[u] # wpc[u]
             \/ rpc' # rpc
             \/ buf' # buf
             \/ user_bufs' # user_bufs
             \/ playing' # playing
             \/ cpc \in {"c_lock", "c_clear", "c_stop"}
             \/ cpc' = "c_lock" ) => vcVars' = vcVars
       ]_vars

\* a transform failed and a window was pushed with the shift of mode high,
\* and the mode is still high
C23_Witness ==
    /\ mode = "high"
    /\ \E u \in Users : wpc[u] = "raised" /\ st[u] = 6
    /\ \E u \in Users : npushed[u] >= 1
    /\ Len(buf) >= 1
    /\ buf[1].fx = << 6 >>

\* C24: a step of speaker u's write() call changes no other speaker's
\* buffer, neither in the dict nor one a running call still holds, and adds
\* or removes no other speaker's entry; the buffer made on a speaker's first
\* frame starts empty, so after the extend it holds just the data of the call.
C24_OtherSpeakersUntouched ==
    [][ \A u \in Users :
          (wpc'[u] # wpc[u]) =>
              /\ \A v \in Users \ {u} :
                    /\ (v \in DOMAIN user_bufs) <=> (v \in DOMAIN user_bufs')
                    /\ v \in DOMAIN user_bufs => user_bufs'[v] = user_bufs[v]
                    /\ orphan'[v] = orphan[v]
              /\ (u \notin DOMAIN user_bufs /\ u \in DOMAIN user_bufs') =>
                    wtotal'[u] = pos'[u] - pos[u]
       ]_vars

\* both speakers have sent a frame and each buffer holds its own speaker's
\* frame
C24_Witness ==
    /\ DOMAIN user_bufs = {1, 2}
    /\ user_bufs[1] = Raw(1, 0, DISCORD_FRAME_BYTES)
    /\ user_bufs[2] = Raw(2, 0, DISCORD_FRAME_BYTES)
    /\ nwrites = 2

\* C25: the jitter buffer's length is a whole number of frames in every
\* state of the session: a push adds one window of 10 frames, transformed or
\* not, a read that finds data removes one frame, and a read returns silence
\* only when the buffer is empty.
C25_WholeFrames ==
    [][ /\ BLen(buf') % DISCORD_FRAME_BYTES = 0
        /\ \A u \in Users :
              (wpc[u] = "w_pushing" /\ wpc'[u] # "w_pushing") =>
                  BLen(buf') = BLen(buf) + PROCESS_FRAMES * DISCORD_FRAME_BYTES
        /\ (rpc = "r_read" /\ rpc' = "idle") =>
              IF BLen(buf) >= DISCORD_FRAME_BYTES
              THEN BLen(buf') = BLen(buf) - DISCORD_FRAME_BYTES
              ELSE IsZeros(frame') /\ BLen(buf) = 0
       ]_vars

\* a read has taken the first frame of a window that was transformed with
\* shift +6
C25_Witness ==
    /\ rpc = "idle"
    /\ nreads = 1
    /\ Len(frame) = 1
    /\ frame[1].fx = << 6 >>
    /\ BLen(frame) = DISCORD_FRAME_BYTES
    /\ BLen(buf) = (PROCESS_FRAMES - 1) * DISCORD_FRAME_BYTES

====
